---- MODULE Spec2Model ----
(***************************************************************************)
(* The polling subscriber of lib/pubsub/subscription.js: the pull loop,    *)
(* flow control (maxInProgress / paused), the listener registry and the   *)
(* ack / skip / delete operations, as one state machine.  Every action is *)
(* one event-loop step: a consumer call, a timer firing or the completion *)
(* callback of a request, run to completion with every call it makes.     *)
(***************************************************************************)
EXTENDS Bags, FiniteSets, Integers, Sequences, TLC

\* ---------------------------------------------------------------- bounds
MaxAckId == 2        \* ackIds are 1..MaxAckId, and so are the bounded
                     \* values of maxInProgress
MaxPending == 2      \* requests in flight plus pending timers, at once
MaxListeners == 2    \* 'message' listeners registered at once

\* ------------------------------------------------------ program constants
MAX_EVENTS_LIMIT == 1000
\* Infinity, the default maxInProgress: above every count the model reaches
Infinity == 1000000

AckIds == 1..MaxAckId
Reactions == {"none", "skip", "ack"}

VARIABLES
    autoAck,            \* this.autoAck
    maxInProgress,      \* this.maxInProgress
    closed,             \* this.closed
    paused,             \* this.paused
    messageListeners,   \* this.messageListeners
    inProgressAckIds,   \* keys of this.inProgressAckIds
    registered,         \* 'message' listeners held by the EventEmitter
    errorListeners,     \* 'error' listeners held by the EventEmitter
    hooked,             \* the newListener/removeListener hooks are installed
    pulls,              \* bag of :pull requests in flight
    acks,               \* bag of :acknowledge requests in flight
    deletes,            \* DELETE requests in flight
    deadlines,          \* :modifyAckDeadline requests in flight
    timers,             \* pending setTimeout(startPulling_) callbacks
    delivered,          \* ackIds of messages handed to a 'message' listener
    log,                \* what the last step did, in order
    step                \* the last step taken

vars == <<autoAck, maxInProgress, closed, paused, messageListeners,
          inProgressAckIds, registered, errorListeners, hooked, pulls, acks,
          deletes, deadlines, timers, delivered, log, step>>

config == <<autoAck, maxInProgress>>

\* ---------------------------------------------------------------- helpers
Range(s) == {s[i] : i \in 1..Len(s)}

\* sequences of distinct elements of S, of length 0..n
DistinctSeqs(S, n) ==
    {s \in UNION {[1..k -> S] : k \in 0..n} :
        \A i, j \in 1..Len(s) : i # j => s[i] # s[j]}

\* what the transport may hand out in answer to one pull: messages that are
\* not outstanding deliveries, in any order
Batches == DistinctSeqs(AckIds \ inProgressAckIds, MaxAckId)

\* the id lists a consumer passes to ack: any ids, none included; the order
\* of the list is immaterial to ack, so each set is listed once
IdLists == {s \in DistinctSeqs(AckIds, MaxAckId) :
               \A i \in 1..Len(s) - 1 : s[i] < s[i + 1]}

\* The part of the object a synchronous call chain reads and writes.
Self ==
    [closed |-> closed, paused |-> paused,
     messageListeners |-> messageListeners,
     inProgressAckIds |-> inProgressAckIds,
     pulls |-> pulls, acks |-> acks, deadlines |-> deadlines,
     timers |-> timers,
     delivered |-> delivered, log |-> <<>>]

Logged(s, entry) == [s EXCEPT !.log = Append(@, entry)]

NoCallback == [kind |-> "none", loop |-> FALSE, messages |-> <<>>]
UserCallback == [kind |-> "user", loop |-> FALSE, messages |-> <<>>]
PullCallbackOf(loop, messages) ==
    [kind |-> "pull", loop |-> loop, messages |-> messages]

\* ------------------------------------------------------------- operations

\* pull as it would be if it dropped the caller's maxResults
PullIgnoringMaxResults(s, options, loop) ==
    LET req == [loop |-> loop,
                returnImmediately |-> options.returnImmediately,
                maxMessages |-> MAX_EVENTS_LIMIT]
    IN  Logged([s EXCEPT !.pulls = @ (+) SetToBag({req})],
               [type |-> "request", uri |-> "pull", loop |-> loop,
                returnImmediately |-> req.returnImmediately,
                maxMessages |-> req.maxMessages,
                inProgress |-> Cardinality(s.inProgressAckIds)])

\* Subscription.prototype.pull, up to the request being sent
Pull(s, options, loop) ==
    LET maxResults == IF options.maxResults = <<>>
                      THEN MAX_EVENTS_LIMIT
                      ELSE options.maxResults[1]
        req == [loop |-> loop,
                returnImmediately |-> options.returnImmediately,
                maxMessages |-> maxResults]
    IN  Logged([s EXCEPT !.pulls = @ (+) SetToBag({req})],
               [type |-> "request", uri |-> "pull", loop |-> loop,
                returnImmediately |-> req.returnImmediately,
                maxMessages |-> req.maxMessages,
                inProgress |-> Cardinality(s.inProgressAckIds)])

StartPullingOptions(s) ==
    [returnImmediately |-> FALSE,
     maxResults |-> IF maxInProgress < Infinity
                    THEN <<maxInProgress - Cardinality(s.inProgressAckIds)>>
                    ELSE <<>>]

\* startPulling_ as it would be without the paused check
StartPullingIgnoringPaused(s) ==
    IF s.closed THEN s ELSE Pull(s, StartPullingOptions(s), TRUE)

\* startPulling_ as it would be without the closed check
StartPullingIgnoringClosed(s) ==
    IF s.paused THEN s ELSE Pull(s, StartPullingOptions(s), TRUE)

\* Subscription.prototype.startPulling_, up to the request being sent
StartPulling(s) ==
    IF s.closed \/ s.paused
    THEN s
    ELSE Pull(s, StartPullingOptions(s), TRUE)

\* refreshPausedStatus_ as it would be if it only recomputed the flag
RefreshPausedStatusNoResume(s) ==
    LET inProgress == Cardinality(s.inProgressAckIds)
    IN  Logged([s EXCEPT !.paused = (inProgress >= maxInProgress)],
               [type |-> "refresh", was |-> s.paused,
                now |-> (inProgress >= maxInProgress),
                messageListeners |-> s.messageListeners])

\* refreshPausedStatus_ as it would be if it paused only above maxInProgress
RefreshPausedStatusStrict(s) ==
    LET isCurrentlyPaused == s.paused
        inProgress == Cardinality(s.inProgressAckIds)
        s1 == Logged([s EXCEPT !.paused = (inProgress > maxInProgress)],
                     [type |-> "refresh", was |-> isCurrentlyPaused,
                      now |-> (inProgress > maxInProgress),
                      messageListeners |-> s.messageListeners])
    IN  IF isCurrentlyPaused /\ ~s1.paused /\ s1.messageListeners > 0
        THEN StartPulling(s1)
        ELSE s1

\* refreshPausedStatus_ as it would be if a missing maxInProgress counted as
\* a ceiling of one message
RefreshPausedStatusFiniteDefault(s) ==
    LET isCurrentlyPaused == s.paused
        inProgress == Cardinality(s.inProgressAckIds)
        limit == IF maxInProgress < Infinity THEN maxInProgress ELSE 1
        s1 == Logged([s EXCEPT !.paused = (inProgress >= limit)],
                     [type |-> "refresh", was |-> isCurrentlyPaused,
                      now |-> (inProgress >= limit),
                      messageListeners |-> s.messageListeners])
    IN  IF isCurrentlyPaused /\ ~s1.paused /\ s1.messageListeners > 0
        THEN StartPulling(s1)
        ELSE s1

\* refreshPausedStatus_ as it would be if it started the loop whenever there
\* is room, paused before or not
RefreshPausedStatusAlwaysResuming(s) ==
    LET inProgress == Cardinality(s.inProgressAckIds)
        s1 == Logged([s EXCEPT !.paused = (inProgress >= maxInProgress)],
                     [type |-> "refresh", was |-> s.paused,
                      now |-> (inProgress >= maxInProgress),
                      messageListeners |-> s.messageListeners])
    IN  IF ~s1.paused /\ s1.messageListeners > 0
        THEN StartPulling(s1)
        ELSE s1

\* Subscription.prototype.refreshPausedStatus_
RefreshPausedStatus(s) ==
    LET isCurrentlyPaused == s.paused
        inProgress == Cardinality(s.inProgressAckIds)
        s1 == Logged([s EXCEPT !.paused = (inProgress >= maxInProgress)],
                     [type |-> "refresh", was |-> isCurrentlyPaused,
                      now |-> (inProgress >= maxInProgress),
                      messageListeners |-> s.messageListeners])
    IN  IF isCurrentlyPaused /\ ~s1.paused /\ s1.messageListeners > 0
        THEN StartPulling(s1)
        ELSE s1

\* Subscription.prototype.ack, up to the request being sent
Ack(s, ackIds, cb) ==
    IF Len(ackIds) = 0
    THEN Logged(s, [type |-> "throw", error |-> "EmptyAck"])
    ELSE Logged([s EXCEPT !.acks = @ (+) SetToBag({[ackIds |-> ackIds,
                                                     cb |-> cb]})],
                [type |-> "request", uri |-> "acknowledge",
                 ackIds |-> ackIds])

\* message.skip as it would be if it emptied the tracker
SkipClearingAll(s, ackId) ==
    RefreshPausedStatus([s EXCEPT !.inProgressAckIds = {}])

\* message.skip, as installed by decorateMessage_
Skip(s, ackId) ==
    RefreshPausedStatus([s EXCEPT !.inProgressAckIds = @ \ {ackId}])

\* Subscription.prototype.decorateMessage_, mapped over a batch
DecorateMessages(s, messages) ==
    [s EXCEPT !.inProgressAckIds = @ \cup Range(messages)]

\* self.emit('message', message): the listeners run synchronously; what
\* the consumer's handler does with the message is its reaction.
EmitMessage(s, message, reaction) ==
    LET s1 == Logged(s, [type |-> "emit", event |-> "message",
                         ackId |-> message, listeners |-> registered,
                         reaction |-> reaction])
        s2 == IF registered > 0
              THEN [s1 EXCEPT !.delivered = @ \cup {message}]
              ELSE s1
    IN  CASE reaction = "skip" -> Skip(s2, message)
          [] reaction = "ack" -> Ack(s2, <<message>>, NoCallback)
          [] OTHER -> s2

RECURSIVE EmitMessages(_, _, _)
\* messages.forEach(emit 'message') of startPulling_'s callback
EmitMessages(s, messages, reactions) ==
    IF messages = <<>>
    THEN s
    ELSE EmitMessages(EmitMessage(s, Head(messages), Head(reactions)),
                      Tail(messages), Tail(reactions))

\* The completion callback startPulling_ hands to pull.  A null `messages`
\* is the empty sequence: both emit nothing.  EventEmitter.emit('error')
\* throws when no 'error' listener is registered, which ends the callback.
LoopCallback(s, err, messages, reactions) ==
    IF err /\ errorListeners = 0
    THEN Logged(s, [type |-> "throw", error |-> "UnhandledError"])
    ELSE LET s1 == IF err
                   THEN Logged(s, [type |-> "emit", event |-> "error",
                                   listeners |-> errorListeners])
                   ELSE s
             s2 == EmitMessages(s1, messages, reactions)
         IN  Logged([s2 EXCEPT !.timers = @ + 1], [type |-> "setTimeout"])

\* the callback of a pull as it would be if every pull were the loop's
CallbackAlwaysLoop(s, cb, err, messages, reactions) ==
    CASE cb.kind = "pull" -> LoopCallback(s, err, messages, reactions)
      [] cb.kind = "none" -> s
      [] OTHER -> Logged(s, [type |-> "callback", of |-> cb.kind,
                             err |-> err])

\* callback(err, messages, response) of a pull: the loop's or the consumer's
Callback(s, cb, err, messages, reactions) ==
    CASE cb.kind = "pull" /\ cb.loop ->
             LoopCallback(s, err, messages, reactions)
      [] cb.kind = "none" -> s
      [] OTHER -> Logged(s, [type |-> "callback", of |-> cb.kind,
                             err |-> err])

\* pull's completion callback as it would be if autoAck acknowledged every
\* batch, the empty one included
PullResponseAckingEmptyBatch(s, req, err, messages, reactions) ==
    IF err
    THEN Callback(s, PullCallbackOf(req.loop, <<>>), TRUE, <<>>, <<>>)
    ELSE LET s1 == RefreshPausedStatus(DecorateMessages(s, messages))
         IN  IF autoAck
             THEN Ack(s1, messages, PullCallbackOf(req.loop, messages))
             ELSE Callback(s1, PullCallbackOf(req.loop, messages), FALSE,
                           messages, reactions)

\* pull's completion callback as it would be if autoAck handed the batch to
\* the caller first and acknowledged it on the side
PullResponseEmittingBeforeAck(s, req, err, messages, reactions) ==
    IF err
    THEN Callback(s, PullCallbackOf(req.loop, <<>>), TRUE, <<>>, <<>>)
    ELSE LET s1 == RefreshPausedStatus(DecorateMessages(s, messages))
             s2 == Callback(s1, PullCallbackOf(req.loop, messages), FALSE,
                            messages, reactions)
         IN  IF autoAck /\ Len(messages) # 0
             THEN Ack(s2, messages, NoCallback)
             ELSE s2

\* The completion callback of pull's request
PullResponse(s, req, err, messages, reactions) ==
    IF err
    THEN Callback(s, PullCallbackOf(req.loop, <<>>), TRUE, <<>>, <<>>)
    ELSE LET s1 == RefreshPausedStatus(DecorateMessages(s, messages))
         IN  IF autoAck /\ Len(messages) # 0
             THEN Ack(s1, messages, PullCallbackOf(req.loop, messages))
             ELSE Callback(s1, PullCallbackOf(req.loop, messages), FALSE,
                           messages, reactions)

\* ack's completion callback as it would be if it resolved the batch on
\* failure too
AckResponseResolvingOnError(s, a, err, reactions) ==
    Callback(RefreshPausedStatus(
                 [s EXCEPT !.inProgressAckIds = @ \ Range(a.ackIds)]),
             a.cb, err, a.cb.messages, reactions)

\* ack's completion callback as it would be if it resolved only the first
\* id of the batch
AckResponseResolvingFirstOnly(s, a, err, reactions) ==
    LET s1 == IF ~err
              THEN RefreshPausedStatus(
                       [s EXCEPT !.inProgressAckIds = @ \ {a.ackIds[1]}])
              ELSE s
    IN  Callback(s1, a.cb, err, a.cb.messages, reactions)

\* The completion callback of ack's request
AckResponse(s, a, err, reactions) ==
    LET s1 == IF ~err
              THEN RefreshPausedStatus(
                       [s EXCEPT !.inProgressAckIds = @ \ Range(a.ackIds)])
              ELSE s
    IN  Callback(s1, a.cb, err, a.cb.messages, reactions)

\* setAckDeadline as it would be if it resolved the ackIds it names
SetAckDeadlineResolving(s, ackIds) ==
    LET s1 == RefreshPausedStatus(
                  [s EXCEPT !.inProgressAckIds = @ \ Range(ackIds)])
    IN  Logged([s1 EXCEPT !.deadlines = @ + 1],
               [type |-> "request", uri |-> "modifyAckDeadline",
                ackIds |-> ackIds])

\* Subscription.prototype.setAckDeadline, up to the request being sent
SetAckDeadline(s, ackIds) ==
    Logged([s EXCEPT !.deadlines = @ + 1],
           [type |-> "request", uri |-> "modifyAckDeadline",
            ackIds |-> ackIds])

\* The completion callback of setAckDeadline's request
SetAckDeadlineResponse(s, err) ==
    Logged([s EXCEPT !.deadlines = @ - 1],
           [type |-> "callback", of |-> "setAckDeadline", err |-> err])

\* ---------------------------------------------------------------- actions
Install(s) ==
    /\ closed' = s.closed
    /\ paused' = s.paused
    /\ messageListeners' = s.messageListeners
    /\ inProgressAckIds' = s.inProgressAckIds
    /\ pulls' = s.pulls
    /\ acks' = s.acks
    /\ deadlines' = s.deadlines
    /\ timers' = s.timers
    /\ delivered' = s.delivered
    /\ log' = s.log
    /\ BagCardinality(s.pulls) + BagCardinality(s.acks) + s.deadlines
           + s.timers <= MaxPending

Init ==
    /\ autoAck \in BOOLEAN
    /\ maxInProgress \in AckIds \cup {Infinity}
    /\ closed = TRUE
    /\ paused = FALSE
    /\ messageListeners = 0
    /\ inProgressAckIds = {}
    /\ registered = 0
    /\ errorListeners = 0
    /\ hooked = TRUE
    /\ pulls = EmptyBag
    /\ acks = EmptyBag
    /\ deletes = 0
    /\ deadlines = 0
    /\ timers = 0
    /\ delivered = {}
    /\ log = <<>>
    /\ step = [op |-> "init", ids |-> <<>>]

\* subscription.on('message', fn): the newListener hook, then the listener
AddMessageListener ==
    /\ registered < MaxListeners
    /\ registered' = registered + 1
    /\ IF hooked
       THEN LET s1 == [Self EXCEPT !.messageListeners = @ + 1]
            IN  IF s1.closed
                THEN Install(StartPulling([s1 EXCEPT !.closed = FALSE]))
                ELSE Install(s1)
       ELSE Install(Self)
    /\ step' = [op |-> "on", ids |-> <<>>]
    /\ UNCHANGED <<config, errorListeners, hooked, deletes>>

\* the removeListener hook as it would be if it only counted
RemoveMessageListenerNotClosing ==
    /\ registered > 0
    /\ registered' = registered - 1
    /\ IF hooked
       THEN Install([Self EXCEPT !.messageListeners = @ - 1])
       ELSE Install(Self)
    /\ step' = [op |-> "removeListener", ids |-> <<>>]
    /\ UNCHANGED <<config, errorListeners, hooked, deletes>>

\* subscription.removeListener('message', fn): the removeListener hook
RemoveMessageListener ==
    /\ registered > 0
    /\ registered' = registered - 1
    /\ IF hooked
       THEN LET s1 == [Self EXCEPT !.messageListeners = @ - 1]
            IN  IF s1.messageListeners = 0
                THEN Install([s1 EXCEPT !.closed = TRUE])
                ELSE Install(s1)
       ELSE Install(Self)
    /\ step' = [op |-> "removeListener", ids |-> <<>>]
    /\ UNCHANGED <<config, errorListeners, hooked, deletes>>

\* subscription.on('error', fn)
AddErrorListener ==
    /\ errorListeners = 0
    /\ errorListeners' = 1
    /\ Install(Self)
    /\ step' = [op |-> "onError", ids |-> <<>>]
    /\ UNCHANGED <<config, registered, hooked, deletes>>

\* subscription.removeListener('error', fn)
RemoveErrorListener ==
    /\ errorListeners > 0
    /\ errorListeners' = errorListeners - 1
    /\ Install(Self)
    /\ step' = [op |-> "removeErrorListener", ids |-> <<>>]
    /\ UNCHANGED <<config, registered, hooked, deletes>>

\* a setTimeout(self.startPulling_.bind(self), self.interval) fires
TimerFire ==
    /\ timers > 0
    /\ Install(StartPulling([Self EXCEPT !.timers = @ - 1]))
    /\ step' = [op |-> "timer", ids |-> <<>>]
    /\ UNCHANGED <<config, registered, errorListeners, hooked, deletes>>

\* the transport answers a pull with at most maxMessages messages, none of
\* them an outstanding delivery
PullResponseOk ==
    \E req \in BagToSet(pulls) :
    \E messages \in Batches :
    \E reactions \in [1..Len(messages) ->
                         IF registered > 0 /\ ~autoAck
                         THEN Reactions ELSE {"none"}] :
        /\ Len(messages) <= req.maxMessages
        /\ Install(PullResponse([Self EXCEPT !.pulls = @ (-) SetToBag({req})],
                                req, FALSE, messages, reactions))
        /\ step' = [op |-> "pullOk", ids |-> messages, loop |-> req.loop]
        /\ UNCHANGED <<config, registered, errorListeners, hooked, deletes>>

\* the transport fails a pull
PullResponseErr ==
    \E req \in BagToSet(pulls) :
        /\ Install(PullResponse([Self EXCEPT !.pulls = @ (-) SetToBag({req})],
                                req, TRUE, <<>>, <<>>))
        /\ step' = [op |-> "pullErr", ids |-> <<>>, loop |-> req.loop]
        /\ UNCHANGED <<config, registered, errorListeners, hooked, deletes>>

\* subscription.ack(ackIds, callback) or message.ack(callback), called by
\* the consumer outside a 'message' handler
ConsumerAck ==
    \E ackIds \in IdLists :
        /\ Install(Ack(Self, ackIds, UserCallback))
        /\ step' = [op |-> "ack", ids |-> ackIds]
        /\ UNCHANGED <<config, registered, errorListeners, hooked, deletes>>

\* the transport acknowledges
AckResponseOk ==
    \E a \in BagToSet(acks) :
    \E reactions \in [1..Len(a.cb.messages) ->
                         IF registered > 0 THEN Reactions ELSE {"none"}] :
        /\ Install(AckResponse([Self EXCEPT !.acks = @ (-) SetToBag({a})],
                               a, FALSE, reactions))
        /\ step' = [op |-> "ackOk", ids |-> a.ackIds, cb |-> a.cb.kind,
                    loop |-> a.cb.loop]
        /\ UNCHANGED <<config, registered, errorListeners, hooked, deletes>>

\* the transport fails an acknowledge
AckResponseErr ==
    \E a \in BagToSet(acks) :
    \E reactions \in [1..Len(a.cb.messages) ->
                         IF registered > 0 /\ (a.cb.loop => errorListeners > 0)
                         THEN Reactions ELSE {"none"}] :
        /\ Install(AckResponse([Self EXCEPT !.acks = @ (-) SetToBag({a})],
                               a, TRUE, reactions))
        /\ step' = [op |-> "ackErr", ids |-> a.ackIds, cb |-> a.cb.kind,
                    loop |-> a.cb.loop]
        /\ UNCHANGED <<config, registered, errorListeners, hooked, deletes>>

\* message.skip(), called by the consumer outside a 'message' handler on a
\* message it was handed
ConsumerSkip ==
    \E ackId \in delivered :
        /\ Install(Skip(Self, ackId))
        /\ step' = [op |-> "skip", ids |-> <<ackId>>]
        /\ UNCHANGED <<config, registered, errorListeners, hooked, deletes>>

\* subscription.delete(callback), up to the request being sent; a consumer
\* deletes a subscription it has not deleted yet
Delete ==
    /\ deletes = 0
    /\ hooked
    /\ deletes' = 1
    /\ Install(Logged(Self, [type |-> "request", uri |-> "delete"]))
    /\ step' = [op |-> "delete", ids |-> <<>>]
    /\ UNCHANGED <<config, registered, errorListeners, hooked>>

\* the DELETE succeeds: closed, then EventEmitter.removeAllListeners(),
\* which emits removeListener for every listener before dropping the
\* removeListener hook itself
DeleteResponseOk ==
    /\ deletes > 0
    /\ deletes' = deletes - 1
    /\ registered' = 0
    /\ errorListeners' = 0
    /\ hooked' = FALSE
    /\ Install(Logged([Self EXCEPT !.closed = TRUE,
                                   !.messageListeners =
                                       IF hooked THEN @ - registered ELSE @],
                      [type |-> "callback", of |-> "delete", err |-> FALSE]))
    /\ step' = [op |-> "deleteOk", ids |-> <<>>]
    /\ UNCHANGED config

\* the DELETE fails
DeleteResponseErr ==
    /\ deletes > 0
    /\ deletes' = deletes - 1
    /\ Install(Logged(Self, [type |-> "callback", of |-> "delete",
                             err |-> TRUE]))
    /\ step' = [op |-> "deleteErr", ids |-> <<>>]
    /\ UNCHANGED <<config, registered, errorListeners, hooked>>

Next ==
    \/ AddMessageListener
    \/ RemoveMessageListener
    \/ AddErrorListener
    \/ RemoveErrorListener
    \/ TimerFire
    \/ PullResponseOk
    \/ PullResponseErr
    \/ ConsumerAck
    \/ AckResponseOk
    \/ AckResponseErr
    \/ ConsumerSkip
    \/ Delete
    \/ DeleteResponseOk
    \/ DeleteResponseErr

Spec == Init /\ [][Next]_vars

\* the options a consumer passes to pull: none, or its own
PullOptions ==
    {[returnImmediately |-> FALSE, maxResults |-> <<>>],
     [returnImmediately |-> TRUE, maxResults |-> <<1>>]}

\* subscription.pull(options, callback), called by the consumer, up to the
\* request being sent
ConsumerPull ==
    \E options \in PullOptions :
        /\ Install(Pull(Self, options, FALSE))
        /\ step' = [op |-> "pull", ids |-> <<>>]
        /\ UNCHANGED <<config, registered, errorListeners, hooked, deletes>>

\* subscription.setAckDeadline(options, callback), called by the consumer,
\* up to the request being sent
ConsumerSetAckDeadline ==
    \E ackIds \in IdLists :
        /\ Install(SetAckDeadline(Self, ackIds))
        /\ step' = [op |-> "setAckDeadline", ids |-> ackIds]
        /\ UNCHANGED <<config, registered, errorListeners, hooked, deletes>>

\* the transport answers a modifyAckDeadline
SetAckDeadlineResponseOk ==
    /\ deadlines > 0
    /\ Install(SetAckDeadlineResponse(Self, FALSE))
    /\ step' = [op |-> "deadlineOk", ids |-> <<>>]
    /\ UNCHANGED <<config, registered, errorListeners, hooked, deletes>>

\* the transport fails a modifyAckDeadline
SetAckDeadlineResponseErr ==
    /\ deadlines > 0
    /\ Install(SetAckDeadlineResponse(Self, TRUE))
    /\ step' = [op |-> "deadlineErr", ids |-> <<>>]
    /\ UNCHANGED <<config, registered, errorListeners, hooked, deletes>>

\* The subscriber with a consumer that also calls pull and setAckDeadline
\* itself, and deletes nothing.
NextDirect ==
    \/ AddMessageListener
    \/ RemoveMessageListener
    \/ AddErrorListener
    \/ RemoveErrorListener
    \/ TimerFire
    \/ PullResponseOk
    \/ PullResponseErr
    \/ ConsumerAck
    \/ AckResponseOk
    \/ AckResponseErr
    \/ ConsumerSkip
    \/ ConsumerPull
    \/ ConsumerSetAckDeadline
    \/ SetAckDeadlineResponseOk
    \/ SetAckDeadlineResponseErr

SpecDirect == Init /\ [][NextDirect]_vars

\* The subscriber against a transport that fails no acknowledge request.
NextAcksSucceed ==
    \/ AddMessageListener
    \/ RemoveMessageListener
    \/ AddErrorListener
    \/ RemoveErrorListener
    \/ TimerFire
    \/ PullResponseOk
    \/ PullResponseErr
    \/ ConsumerAck
    \/ AckResponseOk
    \/ ConsumerSkip
    \/ Delete
    \/ DeleteResponseOk
    \/ DeleteResponseErr

SpecAcksSucceed == Init /\ [][NextAcksSucceed]_vars

\* What the claims about progress take for granted: a timer that is set
\* fires, and the transport answers every request, well or badly.
Fairness ==
    /\ WF_vars(TimerFire)
    /\ WF_vars(PullResponseOk \/ PullResponseErr)
    /\ WF_vars(AckResponseOk \/ AckResponseErr)
    /\ WF_vars(DeleteResponseOk \/ DeleteResponseErr)

SpecLive == Init /\ [][Next]_vars /\ Fairness

\* ------------------------------------------------------- reading the log
IsLoopPull(e) == e.type = "request" /\ e.uri = "pull" /\ e.loop
IsAckRequest(e) == e.type = "request" /\ e.uri = "acknowledge"
IsMessageEmit(e) == e.type = "emit" /\ e.event = "message"
IsErrorEmit(e) == e.type = "emit" /\ e.event = "error"
IsThrow(e) == e.type = "throw"
IsTimeout(e) == e.type = "setTimeout"
IsCallback(e) == e.type = "callback"

LoopPullsIssued(l) == SelectSeq(l, IsLoopPull)
HasLoopPull(l) == \E i \in 1..Len(l) : IsLoopPull(l[i])
HasAckRequest(l) == \E i \in 1..Len(l) : IsAckRequest(l[i])
HasMessageEmit(l) == \E i \in 1..Len(l) : IsMessageEmit(l[i])
HasErrorEmit(l) == \E i \in 1..Len(l) : IsErrorEmit(l[i])
HasThrow(l) == \E i \in 1..Len(l) : IsThrow(l[i])
HasTimeout(l) == \E i \in 1..Len(l) : IsTimeout(l[i])

\* loop-issued pull requests that have not returned their response
LoopPullsInFlight ==
    BagCardinality([r \in {x \in BagToSet(pulls) : x.loop} |-> pulls[r]])

InProgress == Cardinality(inProgressAckIds)
Bounded == maxInProgress < Infinity

\* ----------------------------------------------------------------- claims

\* C1: in every reachable state at most one loop-issued pull request is in
\* flight.
C1_AtMostOneLoopPullInFlight == LoopPullsInFlight <= 1

\* C2: with a bounded maxInProgress = N (the transport honouring maxMessages,
\* only the loop pulling) inProgressAckIds never holds more than N ackIds.
C2_InProgressWithinMax == Bounded => InProgress <= maxInProgress

\* C3: while maxInProgress or more messages are tracked the subscription is
\* paused, and no loop pull is issued at a moment when that many are
\* tracked, whatever the step (timer, listener registration, response).
C3_NoPullAtCapacity ==
    /\ InProgress >= maxInProgress => paused
    /\ \A i \in 1..Len(log) :
           IsLoopPull(log[i]) => log[i].inProgress < maxInProgress

C3_Witness ==
    /\ step.op \in {"timer", "on"}
    /\ messageListeners > 0
    /\ InProgress = maxInProgress
    /\ paused
    /\ ~HasLoopPull(log)

\* C4: when the flag goes from paused to not paused (a skip or a successful
\* ack freed room) while a 'message' listener is counted, the very next
\* thing the step does is issue a loop pull for the room there is.
C4_ResumeImmediately ==
    \A i \in 1..Len(log) :
        (/\ log[i].type = "refresh"
         /\ log[i].was
         /\ ~log[i].now
         /\ log[i].messageListeners > 0)
        => /\ i < Len(log)
           /\ IsLoopPull(log[i + 1])
           /\ log[i + 1].maxMessages = maxInProgress - log[i + 1].inProgress

C4_Witness ==
    /\ maxInProgress = 1
    /\ step.op = "skip"
    /\ Len(log) = 2
    /\ log[1].type = "refresh" /\ log[1].was /\ ~log[1].now
    /\ IsLoopPull(log[2]) /\ log[2].maxMessages = 1
    /\ timers = 0

\* C5: every pull the loop issues asks for maxInProgress minus the number of
\* tracked ackIds at that moment when maxInProgress is bounded, for 1000
\* when it is not, and never sets returnImmediately.
C5_LoopPullRequest ==
    /\ \A i \in 1..Len(log) :
           IsLoopPull(log[i]) =>
               /\ log[i].returnImmediately = FALSE
               /\ log[i].maxMessages =
                      IF Bounded
                      THEN maxInProgress - log[i].inProgress
                      ELSE 1000
    /\ \A r \in BagToSet(pulls) :
           r.loop =>
               /\ r.returnImmediately = FALSE
               /\ IF Bounded
                  THEN r.maxMessages \in 1..maxInProgress
                  ELSE r.maxMessages = 1000

C5_Witness ==
    /\ maxInProgress = 2
    /\ \E i \in 1..Len(log) :
           /\ IsLoopPull(log[i])
           /\ log[i].inProgress = 1
           /\ log[i].maxMessages = 1

\* C6: a loop pull response that arrives while closed is true is discarded:
\* none of its ackIds is tracked and no 'message' event is emitted.
C6_ClosedResponseDiscarded ==
    (step.op = "pullOk" /\ closed) =>
        /\ Range(step.ids) \cap inProgressAckIds = {}
        /\ ~HasMessageEmit(log)

\* C7: removing the last 'message' listener sets closed, and no step that
\* leaves the subscription closed (a response, a timer, an ack, a skip) has
\* issued a pull.
C7_NoPullWhileClosed ==
    /\ (step.op = "removeListener" /\ messageListeners = 0) => closed
    /\ closed => ~HasLoopPull(log)

C7_Witness ==
    /\ step.op = "timer"
    /\ hooked
    /\ registered = 0
    /\ closed
    /\ ~paused
    /\ ~HasLoopPull(log)

\* C8 as stated: the registration that takes the listener count from 0 to 1
\* opens the subscription and starts exactly one pull; a further
\* registration starts none.
C8_FirstListenerStartsOnePull ==
    [][step'.op = "on" =>
          /\ (messageListeners = 0 /\ messageListeners' = 1) =>
                 /\ closed /\ ~closed'
                 /\ Len(LoopPullsIssued(log')) = 1
          /\ messageListeners >= 1 => Len(LoopPullsIssued(log')) = 0]_vars

\* C8 amended: the registration that takes the listener count from 0 to 1
\* opens the subscription and issues exactly one pull when the subscription
\* is not paused and none when it is; a further registration issues none.
C8_FirstListenerStartsPullUnlessPaused ==
    [][step'.op = "on" =>
          /\ (messageListeners = 0 /\ messageListeners' = 1) =>
                 /\ closed /\ ~closed'
                 /\ Len(LoopPullsIssued(log')) = IF paused THEN 0 ELSE 1
          /\ messageListeners >= 1 => Len(LoopPullsIssued(log')) = 0]_vars

C8_Witness ==
    /\ step.op = "on"
    /\ messageListeners = 1
    /\ ~closed
    /\ paused
    /\ ~HasLoopPull(log)

\* C9: a failed loop pull emits 'error', throws nothing and still schedules
\* the next cycle, with or without an 'error' listener.
C9_PullErrorKeepsLoop ==
    step.op = "pullErr" =>
        /\ HasErrorEmit(log)
        /\ ~HasThrow(log)
        /\ HasTimeout(log)

\* C10: ack with an empty id list throws before anything else happens: no
\* request, no callback, nothing changed; and no step of the loop or of
\* autoAck ever raises that error.
C10_EmptyAckThrows ==
    [][/\ (step'.op = "ack" /\ step'.ids = <<>>) =>
              /\ log' = <<[type |-> "throw", error |-> "EmptyAck"]>>
              /\ UNCHANGED <<inProgressAckIds, paused, closed, acks, pulls,
                             timers, messageListeners>>
       /\ ~(step'.op = "ack" /\ step'.ids = <<>>) =>
              \A i \in 1..Len(log') :
                  IsThrow(log'[i]) => log'[i].error # "EmptyAck"]_vars

C10_Witness ==
    /\ step.op = "ack"
    /\ step.ids = <<>>
    /\ HasThrow(log)
    /\ ~HasAckRequest(log)
    /\ autoAck
    /\ InProgress > 0

\* the steps a consumer's 'message' handler took no part in
NoReaction(l) ==
    \A i \in 1..Len(l) : IsMessageEmit(l[i]) => l[i].reaction = "none"

\* the ackIds of the 'message' events of a step, in the order of emission
EmittedIds(l) ==
    LET emits == SelectSeq(l, IsMessageEmit)
    IN  [i \in 1..Len(emits) |-> emits[i].ackId]

\* C11: a failed acknowledge hands the error to the callback the ack was
\* started with and does nothing else: tracker and paused as they were, no
\* pull, no second acknowledge request; whatever else the step does, a
\* 'message' handler of the consumer did.
C11_AckErrorLeavesTracker ==
    [][step'.op = "ackErr" =>
          /\ step'.cb = "user" =>
                 log' = <<[type |-> "callback", of |-> "user", err |-> TRUE]>>
          /\ step'.cb = "none" => log' = <<>>
          /\ step'.cb = "pull" =>
                 /\ log' # <<>>
                 /\ IsErrorEmit(log'[1]) \/ IsThrow(log'[1])
          /\ NoReaction(log') =>
                 /\ UNCHANGED <<inProgressAckIds, paused, pulls>>
                 /\ ~HasAckRequest(log')
                 /\ ~HasLoopPull(log')
          /\ \A i \in 1..Len(log') :
                 log'[i].type \in {"refresh", "request"} =>
                     \E j \in 1..(i - 1) :
                         /\ IsMessageEmit(log'[j])
                         /\ log'[j].reaction # "none"]_vars

C11_Witness ==
    /\ step.op = "ackErr"
    /\ step.cb = "user"
    /\ Range(step.ids) \subseteq inProgressAckIds
    /\ paused
    /\ messageListeners > 0
    /\ Len(log) = 1
    /\ log[1].type = "callback" /\ log[1].err

\* C12: a successful acknowledge removes every ackId of its batch from the
\* tracker and no other, and brings paused up to date before the callback
\* (or anything else) runs.
C12_AckSuccessResolvesBatch ==
    [][step'.op = "ackOk" =>
          /\ inProgressAckIds' = inProgressAckIds \ Range(step'.ids)
          /\ log' # <<>>
          /\ log'[1].type = "refresh"
          /\ log'[1].was = paused
          /\ log'[1].now =
                 (Cardinality(inProgressAckIds \ Range(step'.ids))
                      >= maxInProgress)
          /\ paused' = (Cardinality(inProgressAckIds') >= maxInProgress)
          /\ \A i \in 1..Len(log') : IsCallback(log'[i]) => i > 1]_vars

C12_Witness ==
    /\ maxInProgress = 2
    /\ step.op = "ackOk"
    /\ step.cb = "user"
    /\ Len(step.ids) = 2
    /\ inProgressAckIds = {}
    /\ Len(log) >= 2
    /\ log[1].type = "refresh" /\ log[1].was /\ ~log[1].now
    /\ IsCallback(log[Len(log)])

\* C13: message.skip() removes that message's ackId from the tracker and no
\* other, brings paused up to date and sends no acknowledge request; closed
\* and the listener counts stay as they were.
C13_SkipIsLocal ==
    [][step'.op = "skip" =>
          /\ inProgressAckIds' = inProgressAckIds \ {step'.ids[1]}
          /\ paused' = (Cardinality(inProgressAckIds') >= maxInProgress)
          /\ log'[1].type = "refresh"
          /\ ~HasAckRequest(log')
          /\ \A i \in 1..Len(log') :
                 log'[i].type = "request" => log'[i].uri = "pull"
          /\ UNCHANGED <<closed, messageListeners, registered,
                         errorListeners, acks, deletes, timers>>]_vars

C13_Witness ==
    /\ maxInProgress = 2
    /\ step.op = "skip"
    /\ Cardinality(inProgressAckIds) = 1
    /\ step.ids[1] \notin inProgressAckIds
    /\ log[1].type = "refresh" /\ log[1].was /\ ~log[1].now
    /\ ~paused

C15_AutoAckCycle ==
    autoAck =>
        /\ (step.op = "pullOk" /\ step.loop /\ step.ids # <<>>) =>
               /\ SelectSeq(log, IsAckRequest) =
                      <<[type |-> "request", uri |-> "acknowledge",
                         ackIds |-> step.ids]>>
               /\ ~HasTimeout(log)
        /\ (step.op = "pullOk" /\ step.loop /\ step.ids = <<>>) =>
               ~HasAckRequest(log)
        /\ (step.op \in {"ackOk", "ackErr"} /\ step.cb = "pull"
                /\ step.loop) =>
               /\ Range(step.ids) \subseteq Range(EmittedIds(log))
               /\ Len(SelectSeq(log, IsTimeout)) = 1

\* C16: a successful delete closes the subscription and removes every
\* listener, and from then on no 'message' event reaches a listener and no
\* pull is issued; a failed delete only calls back with the error.
C16_DeleteClosesForGood ==
    [][/\ step'.op = "deleteOk" =>
              /\ closed'
              /\ registered' = 0
              /\ errorListeners' = 0
       /\ ~hooked' =>
              /\ ~HasLoopPull(log')
              /\ \A i \in 1..Len(log') :
                     IsMessageEmit(log'[i]) => log'[i].listeners = 0
       /\ step'.op = "deleteErr" =>
              /\ log' = <<[type |-> "callback", of |-> "delete",
                           err |-> TRUE]>>
              /\ UNCHANGED <<closed, paused, registered, messageListeners,
                             errorListeners, inProgressAckIds, pulls, acks,
                             timers>>]_vars

\* C17: the 'message' events of a cycle are the messages of the pull
\* response, in the transport's order, each once; no other step emits a
\* 'message' event.
C17_EmittedInTransportOrder ==
    IF \/ ~autoAck /\ step.op = "pullOk" /\ step.loop
       \/ step.op \in {"ackOk", "ackErr"} /\ step.cb = "pull" /\ step.loop
    THEN EmittedIds(log) = step.ids
    ELSE EmittedIds(log) = <<>>

\* C18 as stated: closed is true exactly when no 'message' listener is
\* registered.
C18_ClosedIffNoListenerRegistered == closed <=> (registered = 0)

\* C18 amended: closed is true exactly when the subscription's own listener
\* count is 0; that count is the number of registered 'message' listeners
\* until a delete succeeds, and after a successful delete the subscription
\* stays closed whatever listeners are registered.
C18_ClosedIffNoListenerCounted ==
    /\ closed <=> (messageListeners = 0)
    /\ hooked => messageListeners = registered
    /\ ~hooked => closed

C18_Witness ==
    /\ ~hooked
    /\ registered > 0
    /\ messageListeners = 0
    /\ closed
    /\ step.op = "on"

\* C19: between steps paused is true exactly when maxInProgress or more
\* ackIds are tracked.
C19_PausedIffAtCapacity == paused <=> (InProgress >= maxInProgress)

C19_Witness ==
    /\ Bounded
    /\ step.op = "pullOk"
    /\ step.ids # <<>>
    /\ InProgress = maxInProgress
    /\ paused

\* C20: with maxInProgress left unbounded the subscription is never paused,
\* however many ackIds are tracked.
C20_UnboundedNeverPaused == ~Bounded => ~paused

C20_Witness ==
    /\ ~Bounded
    /\ step.op = "pullOk"
    /\ InProgress >= 2
    /\ ~paused
    /\ \E r \in BagToSet(pulls) : r.loop

\* C21: every tracked ackId belongs to a message that has been handed to a
\* 'message' listener; the tracker holds no ackId of an undelivered message.
C21_TrackedAreDelivered == inProgressAckIds \subseteq delivered

\* C22: the step that shuts the subscriber down (the removal of the last
\* 'message' listener, or a successful delete) leaves the tracker empty.
C22_ShutdownClearsTracker ==
    (\/ step.op = "removeListener" /\ hooked /\ messageListeners = 0
     \/ step.op = "deleteOk")
    => inProgressAckIds = {}

\* C23: under a transport that answers every request and timers that fire,
\* if a 'message' listener stays counted and the consumer keeps resolving
\* what it was handed, the loop issues pulls again and again.
C23_PullsInfinitelyOften ==
    (/\ <>[](messageListeners > 0)
     /\ []<>(inProgressAckIds \cap delivered = {}))
    => []<>HasLoopPull(log)

\* C24: setAckDeadline sends its request and nothing else, and the response,
\* good or bad, goes to the callback and nothing else: tracker, paused,
\* closed, the listener counts and the other requests stay as they were.
C24_SetAckDeadlineLeavesState ==
    [][/\ step'.op = "setAckDeadline" =>
              /\ log' = <<[type |-> "request", uri |-> "modifyAckDeadline",
                           ackIds |-> step'.ids]>>
              /\ UNCHANGED <<inProgressAckIds, paused, closed,
                             messageListeners, registered, pulls, acks,
                             timers>>
       /\ step'.op \in {"deadlineOk", "deadlineErr"} =>
              /\ log' = <<[type |-> "callback", of |-> "setAckDeadline",
                           err |-> (step'.op = "deadlineErr")]>>
              /\ UNCHANGED <<inProgressAckIds, paused, closed,
                             messageListeners, registered, pulls, acks,
                             timers>>]_vars

C24_Witness ==
    /\ step.op = "setAckDeadline"
    /\ Len(step.ids) = 2
    /\ Range(step.ids) \subseteq inProgressAckIds
    /\ paused
    /\ messageListeners > 0
    /\ deadlines = 1

\* C25: resolving ackIds that are not tracked changes nothing: a skip of an
\* untracked message, or a successful acknowledge of untracked ackIds,
\* throws nothing, leaves the tracker and paused as they were and starts no
\* pull.
C25_ResolveUntrackedIsNoOp ==
    [][(\/ step'.op = "skip" /\ step'.ids[1] \notin inProgressAckIds
        \/ step'.op = "ackOk" /\ Range(step'.ids) \cap inProgressAckIds = {})
       => /\ UNCHANGED <<inProgressAckIds, paused, pulls>>
          /\ ~HasThrow(log')
          /\ ~HasLoopPull(log')
          /\ log'[1] = [type |-> "refresh", was |-> paused, now |-> paused,
                        messageListeners |-> messageListeners]]_vars

C25_Witness ==
    /\ maxInProgress = 2
    /\ step.op = "skip"
    /\ log = <<[type |-> "refresh", was |-> FALSE, now |-> FALSE,
                messageListeners |-> 1]>>
    /\ InProgress = 1
    /\ ~closed

\* C26: in autoAck mode the core acknowledges a batch on the server only
\* when its messages reach a listener: the 'message' events emitted once the
\* batch's acknowledge has succeeded all go to at least one listener.
C26_AutoAckOnlyDelivered ==
    (autoAck /\ step.op = "ackOk" /\ step.cb = "pull" /\ step.loop) =>
        \A i \in 1..Len(log) :
            IsMessageEmit(log[i]) => log[i].listeners > 0

\* C27: in autoAck mode a cycle whose acknowledge request fails emits one
\* 'error' event and then a 'message' event for every message of the batch,
\* leaves the tracker as it was (unless a handler resolves something) and
\* schedules the next cycle.
C27_AckFailureStillDelivers ==
    [][(autoAck /\ step'.op = "ackErr" /\ step'.cb = "pull" /\ step'.loop)
       => /\ Len(SelectSeq(log', IsErrorEmit)) = 1
          /\ IsErrorEmit(log'[1])
          /\ EmittedIds(log') = step'.ids
          /\ NoReaction(log') => inProgressAckIds' = inProgressAckIds
          /\ Len(SelectSeq(log', IsTimeout)) = 1
          /\ timers' = timers + 1]_vars

\* C28: in autoAck mode, with no acknowledge failing and the consumer not
\* pulling, nothing is tracked and the subscription is not paused whenever
\* no pull and no acknowledge request is in flight.
C28_AutoAckDrainsTracker ==
    (autoAck /\ pulls = EmptyBag /\ acks = EmptyBag) =>
        /\ inProgressAckIds = {}
        /\ ~paused

C28_Witness ==
    /\ autoAck
    /\ maxInProgress = 2
    /\ step.op = "ackOk"
    /\ step.cb = "pull"
    /\ step.loop
    /\ Len(step.ids) = 1
    /\ EmittedIds(log) = step.ids
    /\ pulls = EmptyBag
    /\ acks = EmptyBag
    /\ inProgressAckIds = {}
    /\ timers > 0
    /\ ~closed

\* C29: with a bounded maxInProgress every pull the loop issues asks for at
\* least one message.
C29_LoopPullAsksForSome ==
    Bounded =>
        /\ \A i \in 1..Len(log) :
               IsLoopPull(log[i]) => log[i].maxMessages >= 1
        /\ \A r \in BagToSet(pulls) : r.loop => r.maxMessages >= 1

C29_Witness ==
    /\ maxInProgress = 2
    /\ step.op = "timer"
    /\ InProgress = 1
    /\ Len(log) = 1
    /\ IsLoopPull(log[1])
    /\ log[1].maxMessages = 1

\* C30: the response to a pull the consumer called itself tracks every
\* returned ackId and brings paused up to date, emits no event, sets no
\* timer and starts no loop pull; its messages go to the caller's callback
\* (in autoAck mode once they are acknowledged).  A failed one only calls
\* back with the error.
C30_DirectPullTracksOnly ==
    [][/\ (step'.op = "pullOk" /\ ~step'.loop) =>
              /\ inProgressAckIds' = inProgressAckIds \cup Range(step'.ids)
              /\ paused' = (Cardinality(inProgressAckIds') >= maxInProgress)
              /\ log'[1].type = "refresh"
              /\ ~HasMessageEmit(log')
              /\ ~HasErrorEmit(log')
              /\ ~HasTimeout(log')
              /\ ~HasLoopPull(log')
              /\ timers' = timers
              /\ log'[Len(log')] =
                     IF autoAck /\ step'.ids # <<>>
                     THEN [type |-> "request", uri |-> "acknowledge",
                           ackIds |-> step'.ids]
                     ELSE [type |-> "callback", of |-> "pull",
                           err |-> FALSE]
       /\ (step'.op = "pullErr" /\ ~step'.loop) =>
              /\ log' = <<[type |-> "callback", of |-> "pull",
                           err |-> TRUE]>>
              /\ UNCHANGED <<inProgressAckIds, paused, timers, acks>>]_vars

C30_Witness ==
    /\ ~autoAck
    /\ step.op = "pullOk"
    /\ ~step.loop
    /\ Len(step.ids) = 2
    /\ Range(step.ids) \subseteq inProgressAckIds
    /\ paused
    /\ registered > 0
    /\ errorListeners > 0
    /\ timers = 0
    /\ IsCallback(log[Len(log)])

====
